---- MODULE Spec2Model ----
(***************************************************************************)
(* A model of gcmap (src/src/lib.rs): a hash map whose entries are kept    *)
(* alive by caller-held MarkOnDrop tokens.  Dropping a token sets the      *)
(* entry's shared marker and bumps the map's shared gc counter; the map    *)
(* evicts marked entries lazily (get, get_mut, entry) or in bulk (gc).     *)
(*                                                                         *)
(* Map methods take &mut self, so each is one atomic action.  An Entry     *)
(* handle and a returned &mut V borrow the map: while one is outstanding   *)
(* no map method can run, but a MarkOnDrop does not borrow the map and can *)
(* be dropped at any time.                                                 *)
(*                                                                         *)
(* Spec takes every method and drop() as one step.  SpecConc splits drop() *)
(* into its two atomic operations and self.gc() into its load, its store   *)
(* and one step per entry visited by retain, so that a MarkOnDrop dropped  *)
(* on another thread interleaves with a running pass.                      *)
(***************************************************************************)
EXTENDS Naturals, FiniteSets

\* Bounds of the model.
NumKeys == 4
NumVals == 2
MaxMarks == 3
PopulatedAllocs == 1

Keys == 1 .. NumKeys
Vals == 1 .. NumVals
\* Marker identities: 1 .. MaxMarks for the markers the actions allocate,
\* MaxMarks + k for the marker of key k in the populated initial state.
Marks == 1 .. (MaxMarks + NumKeys)

\* Option::None, for a returned value.
None == 0

\* A slot of self.v with no entry; an entry is (V, Arc<AtomicBool>).
NoEntry == [val |-> 0, marker |-> 0]

\* No Entry handle and no &mut V outstanding.
NoHandle == [kind |-> "None", key |-> 0]

\* No call of the map is in progress.
NoPass == [pc |-> "idle", op |-> "none", key |-> 0, val |-> 0, fired |-> FALSE, todo |-> {}]

VARIABLES
    v,        \* self.v: Keys -> entry or NoEntry
    gc,       \* self.gc: the shared AtomicUsize
    flag,     \* the value of each allocated Arc<AtomicBool>
    nmarks,   \* markers allocated so far, counted against MaxMarks; the next is nmarks + 1
    leases,   \* the markers whose MarkOnDrop has not been dropped
    handle,   \* the outstanding borrow of the map: Entry handle or &mut V
    last,     \* the most recent call and what it returned
    dropping, \* markers whose drop() has stored the flag and not yet added to the counter
    pass      \* the call of the map that is inside self.gc() or about to finish after it

vars == <<v, gc, flag, nmarks, leases, handle, last, dropping, pass>>

Call(op, k, x, ret, fired, fcalls) ==
    [op |-> op, key |-> k, val |-> x, ret |-> ret, fired |-> fired, fcalls |-> fcalls]

----------------------------------------------------------------------------
\* Pure parts of the methods.

\* HashMap::len
Len(tbl) == Cardinality({k \in Keys : tbl[k] # NoEntry})

\* Mutant of GcFires: the early return taken on counter <= len / 2.
GcFiresStrict(cnt, tbl) == ~(cnt <= Len(tbl) \div 2)

\* gc(): the early return is taken when counter < len / 2.
GcFires(cnt, tbl) == ~(cnt < Len(tbl) \div 2)

\* Mutant of Retain: the predicate without its negation.
RetainInverted(tbl, fl) ==
    [k \in Keys |-> IF tbl[k] # NoEntry /\ ~fl[tbl[k].marker] THEN NoEntry ELSE tbl[k]]

\* Mutant of Retain: a pass empties the table (clear() in place of retain()).
RetainNothing(tbl, fl) == [k \in Keys |-> NoEntry]

\* Mutant of Retain: a pass removes one marked entry, the first it finds.
RetainFirst(tbl, fl) ==
    LET rel == {k \in Keys : tbl[k] # NoEntry /\ fl[tbl[k].marker]}
    IN  [k \in Keys |-> IF k \in rel /\ (\A j \in rel : k <= j) THEN NoEntry ELSE tbl[k]]

\* gc(): self.v.retain(|_, (_, marker)| !marker.load())
Retain(tbl, fl) ==
    [k \in Keys |-> IF tbl[k] # NoEntry /\ fl[tbl[k].marker] THEN NoEntry ELSE tbl[k]]

\* The table and the counter after self.gc().
GcTable(tbl, cnt, fl) == IF GcFires(cnt, tbl) THEN Retain(tbl, fl) ELSE tbl

\* Mutant of GcCounter: the pass without self.gc.store(0).
GcCounterKept(tbl, cnt) == cnt

GcCounter(tbl, cnt) == IF GcFires(cnt, tbl) THEN 0 ELSE cnt

\* Mutant of ShouldRemove: the marker is never consulted.
ShouldRemoveNever(tbl, k, fl) == FALSE

\* Mutant of ShouldRemove: any entry of the key is removed, marked or not.
ShouldRemoveAlways(tbl, k, fl) == tbl[k] # NoEntry

\* get / get_mut / entry: "remove" is the marker's value when the key has an entry.
ShouldRemove(tbl, k, fl) == tbl[k] # NoEntry /\ fl[tbl[k].marker]

\* Mutant of LazyEvict: the entry is left in the table.
LazyEvictSkipped(tbl, k, fl) == tbl

\* get / get_mut / entry: if remove { self.v.remove(k) }
LazyEvict(tbl, k, fl) ==
    IF ShouldRemove(tbl, k, fl) THEN [tbl EXCEPT ![k] = NoEntry] ELSE tbl

\* Mutant of PrevValue: the old entry's marker is not loaded.
PrevValueUnchecked(old, fl) == IF old = NoEntry THEN None ELSE old.val

\* insert: the previous value reported for the entry that was overwritten.
PrevValue(old, fl) ==
    IF old = NoEntry THEN None
    ELSE IF fl[old.marker] = FALSE THEN old.val ELSE None

\* self.v.get(k).map(|(v,_)| v)
Lookup(tbl, k) == IF tbl[k] = NoEntry THEN None ELSE tbl[k].val

\* Mutant of MarkerStore: drop without the store.
MarkerStoreMissing(fl, m) == fl

\* MarkOnDrop::drop: self.marker.store(true)
MarkerStore(fl, m) == [fl EXCEPT ![m] = TRUE]

\* Mutants of FetchAdd: drop without the increment, and with a double one.
FetchAddMissing(cnt) == cnt

FetchAddTwice(cnt) == cnt + 2

\* MarkOnDrop::drop: self.gc.fetch_add(1)
FetchAdd(cnt) == cnt + 1

----------------------------------------------------------------------------
\* HashMap::new(): empty table, counter 0.
New ==
    /\ v = [k \in Keys |-> NoEntry]
    /\ gc = 0
    /\ flag = [m \in Marks |-> FALSE]
    /\ nmarks = 0
    /\ leases = {}
    /\ handle = NoHandle
    /\ last = Call("new", 0, 0, None, FALSE, 0)
    /\ dropping = {}
    /\ pass = NoPass

\* The map after new() and insert(k, InitVal(k)) for k = 1 .. NumKeys with every
\* MarkOnDrop kept: no gc pass removed anything and nothing was dropped, so the
\* table is full, every marker is false and the counter is 0.  From here
\* PopulatedAllocs further markers can be allocated.
InitVal(k) == 1 + (k % NumVals)

Populated ==
    /\ v = [k \in Keys |-> [val |-> InitVal(k), marker |-> MaxMarks + k]]
    /\ gc = 0
    /\ flag = [m \in Marks |-> FALSE]
    /\ nmarks = MaxMarks - PopulatedAllocs
    /\ leases = {MaxMarks + k : k \in Keys}
    /\ handle = NoHandle
    /\ last = Call("insert", NumKeys, InitVal(NumKeys), None, FALSE, 0)
    /\ dropping = {}
    /\ pass = NoPass

\* Behaviours start from the new map or from the populated one: a table of
\* four entries, which gc() needs in order to skip a pass while a marked
\* entry is present, is reached without spending MaxMarks on filling it.
Init == New \/ Populated

\* Mutant of Insert: an insert over an existing entry keeps that entry's
\* marker and stores false into it instead of allocating a new one.
InsertRevive(k, x) ==
    /\ handle = NoHandle
    /\ nmarks < MaxMarks
    /\ LET t1 == GcTable(v, gc, flag)
           m  == IF t1[k] # NoEntry THEN t1[k].marker ELSE nmarks + 1
       IN  /\ v' = [t1 EXCEPT ![k] = [val |-> x, marker |-> m]]
           /\ gc' = GcCounter(v, gc)
           /\ nmarks' = nmarks + 1
           /\ flag' = [flag EXCEPT ![m] = FALSE]
           /\ leases' = leases \cup {m}
           /\ last' = Call("insert", k, x, PrevValue(t1[k], flag), GcFires(gc, v), 0)
    /\ UNCHANGED handle
    /\ UNCHANGED <<dropping, pass>>

\* HashMap::insert(k, x)
Insert(k, x) ==
    /\ handle = NoHandle
    /\ nmarks < MaxMarks
    /\ LET t1 == GcTable(v, gc, flag)
           m  == nmarks + 1
       IN  /\ v' = [t1 EXCEPT ![k] = [val |-> x, marker |-> m]]
           /\ gc' = GcCounter(v, gc)
           /\ nmarks' = m
           /\ leases' = leases \cup {m}
           /\ last' = Call("insert", k, x, PrevValue(t1[k], flag), GcFires(gc, v), 0)
    /\ UNCHANGED <<flag, handle>>
    /\ UNCHANGED <<dropping, pass>>

\* Mutant of Get: get starts with self.gc() as insert and entry do.
GetWithGc(k) ==
    /\ pass = NoPass
    /\ handle = NoHandle
    /\ LET t1 == LazyEvict(GcTable(v, gc, flag), k, flag)
       IN  /\ v' = t1
           /\ gc' = GcCounter(v, gc)
           /\ last' = Call("get", k, 0, Lookup(t1, k), FALSE, 0)
    /\ UNCHANGED <<flag, nmarks, leases, handle>>
    /\ UNCHANGED <<dropping, pass>>

\* HashMap::get(k)
Get(k) ==
    /\ pass = NoPass
    /\ handle = NoHandle
    /\ LET t1 == LazyEvict(v, k, flag)
       IN  /\ v' = t1
           /\ last' = Call("get", k, 0, Lookup(t1, k), FALSE, 0)
    /\ UNCHANGED <<gc, flag, nmarks, leases, handle>>
    /\ UNCHANGED <<dropping, pass>>

\* HashMap::get_mut(k): a hit leaves a &mut V outstanding.
GetMut(k) ==
    /\ pass = NoPass
    /\ handle = NoHandle
    /\ LET t1 == LazyEvict(v, k, flag)
       IN  /\ v' = t1
           /\ handle' = IF t1[k] = NoEntry THEN NoHandle ELSE [kind |-> "Ref", key |-> k]
           /\ last' = Call("get_mut", k, 0, Lookup(t1, k), FALSE, 0)
    /\ UNCHANGED <<gc, flag, nmarks, leases>>
    /\ UNCHANGED <<dropping, pass>>

\* HashMap::gc()
Gc ==
    /\ handle = NoHandle
    /\ v' = GcTable(v, gc, flag)
    /\ gc' = GcCounter(v, gc)
    /\ last' = Call("gc", 0, 0, None, GcFires(gc, v), 0)
    /\ UNCHANGED <<flag, nmarks, leases, handle>>
    /\ UNCHANGED <<dropping, pass>>

\* HashMap::entry(k)
Entry(k) ==
    /\ handle = NoHandle
    /\ LET t1 == GcTable(v, gc, flag)
           t2 == LazyEvict(t1, k, flag)
       IN  /\ v' = t2
           /\ gc' = GcCounter(v, gc)
           /\ handle' = [kind |-> IF t2[k] = NoEntry THEN "Vacant" ELSE "Occupied",
                         key |-> k]
           /\ last' = Call("entry", k, 0, None, GcFires(gc, v), 0)
    /\ UNCHANGED <<flag, nmarks, leases>>
    /\ UNCHANGED <<dropping, pass>>

\* OccupiedEntry::into_mut, reported as call op.
DoIntoMut(op) ==
    /\ handle.kind = "Occupied"
    /\ handle' = [kind |-> "Ref", key |-> handle.key]
    /\ last' = Call(op, handle.key, 0, v[handle.key].val, FALSE, 0)
    /\ UNCHANGED <<v, gc, flag, nmarks, leases>>
    /\ UNCHANGED <<dropping, pass>>

\* VacantEntry::insert_with(value), reported as call op.  The factory is
\* handed the new MarkOnDrop and returns x; it either keeps the MarkOnDrop
\* (keep) or lets it go, which runs MarkOnDrop::drop before the entry is stored.
DoInsertWith(op, keep, x) ==
    /\ handle.kind = "Vacant"
    /\ nmarks < MaxMarks
    /\ LET m == nmarks + 1
       IN  /\ nmarks' = m
           /\ leases' = IF keep THEN leases \cup {m} ELSE leases
           /\ flag' = IF keep THEN flag ELSE MarkerStore(flag, m)
           /\ gc' = IF keep THEN gc ELSE FetchAdd(gc)
           /\ v' = [v EXCEPT ![handle.key] = [val |-> x, marker |-> m]]
           /\ handle' = [kind |-> "Ref", key |-> handle.key]
           /\ last' = Call(op, handle.key, x, x, FALSE, 1)
    /\ UNCHANGED <<dropping, pass>>

IntoMut == DoIntoMut("into_mut")

InsertWith(keep, x) == DoInsertWith("insert_with", keep, x)

\* Entry::or_insert_with(default)
OrInsertWith(keep, x) ==
    \/ DoIntoMut("or_insert_with")
    \/ DoInsertWith("or_insert_with", keep, x)

\* Mutant of Write: the write stores a new tuple with a marker of its own, as
\* a re-insert of the key would.
WriteFresh(w) ==
    /\ handle.kind = "Ref"
    /\ nmarks < MaxMarks
    /\ nmarks' = nmarks + 1
    /\ v' = [v EXCEPT ![handle.key] = [val |-> w, marker |-> nmarks + 1]]
    /\ handle' = NoHandle
    /\ last' = Call("write", handle.key, w, None, FALSE, 0)
    /\ UNCHANGED <<gc, flag, leases>>
    /\ UNCHANGED <<dropping, pass>>

\* *r = w through the outstanding &mut V, which then goes out of scope
\* (the tests' { let val = ...; *val = 3; }).
Write(w) ==
    /\ handle.kind = "Ref"
    /\ v' = [v EXCEPT ![handle.key].val = w]
    /\ handle' = NoHandle
    /\ last' = Call("write", handle.key, w, None, FALSE, 0)
    /\ UNCHANGED <<gc, flag, nmarks, leases>>
    /\ UNCHANGED <<dropping, pass>>

\* The Entry handle or the &mut V goes out of scope unused.
EndBorrow ==
    /\ handle # NoHandle
    /\ handle' = NoHandle
    /\ last' = Call("end_borrow", 0, 0, None, FALSE, 0)
    /\ UNCHANGED <<v, gc, flag, nmarks, leases>>
    /\ UNCHANGED <<dropping, pass>>

\* Mutant of LenCall: len() counts only the entries whose marker is not set.
LenCallLiveOnly ==
    /\ pass = NoPass
    /\ handle = NoHandle
    /\ last' = Call("len", 0, 0,
                    Cardinality({k \in Keys : v[k] # NoEntry /\ ~flag[v[k].marker]}),
                    FALSE, 0)
    /\ UNCHANGED <<v, gc, flag, nmarks, leases, handle>>
    /\ UNCHANGED <<dropping, pass>>

\* HashMap::len(&self): returns self.v.len() and writes nothing.
LenCall ==
    /\ pass = NoPass
    /\ handle = NoHandle
    /\ last' = Call("len", 0, 0, Len(v), FALSE, 0)
    /\ UNCHANGED <<v, gc, flag, nmarks, leases, handle>>
    /\ UNCHANGED <<dropping, pass>>

\* Mutant of Drop: the drop also takes the entry bound to the marker out of
\* the table at once.
DropRemoving(m) ==
    /\ m \in leases
    /\ flag' = MarkerStore(flag, m)
    /\ gc' = FetchAdd(gc)
    /\ leases' = leases \ {m}
    /\ v' = [k \in Keys |-> IF v[k] # NoEntry /\ v[k].marker = m
                             THEN NoEntry ELSE v[k]]
    /\ last' = Call("drop", 0, 0, None, FALSE, 0)
    /\ UNCHANGED <<nmarks, handle>>
    /\ UNCHANGED <<dropping, pass>>

\* MarkOnDrop::drop of the MarkOnDrop bound to marker m.
Drop(m) ==
    /\ m \in leases
    /\ flag' = MarkerStore(flag, m)
    /\ gc' = FetchAdd(gc)
    /\ leases' = leases \ {m}
    /\ last' = Call("drop", 0, 0, None, FALSE, 0)
    /\ UNCHANGED <<v, nmarks, handle>>
    /\ UNCHANGED <<dropping, pass>>

Next ==
    \/ \E k \in Keys, x \in Vals : Insert(k, x)
    \/ \E k \in Keys : Get(k)
    \/ \E k \in Keys : GetMut(k)
    \/ Gc
    \/ LenCall
    \/ \E k \in Keys : Entry(k)
    \/ IntoMut
    \/ \E keep \in BOOLEAN, x \in Vals : InsertWith(keep, x)
    \/ \E keep \in BOOLEAN, x \in Vals : OrInsertWith(keep, x)
    \/ \E w \in Vals : Write(w)
    \/ EndBorrow
    \/ \E m \in Marks : Drop(m)

Spec == Init /\ [][Next]_vars

----------------------------------------------------------------------------
\* The steps of SpecConc.  MarkOnDrop is Send and shares only the two atomics
\* with the map, so the two operations of drop() interleave with the steps of
\* a map method; the map itself is behind &mut self, so one method runs at a
\* time.

\* self.gc() at the start of gc(), insert(k, x) and entry(k): the load of the
\* counter and the early return.
GcLoad(op, k, x) ==
    /\ handle = NoHandle
    /\ pass = NoPass
    /\ op = "insert" => nmarks < MaxMarks
    /\ pass' = [pc    |-> IF GcFires(gc, v) THEN "store" ELSE "tail",
                op    |-> op,
                key   |-> k,
                val   |-> x,
                fired |-> GcFires(gc, v),
                todo  |-> {}]
    /\ UNCHANGED <<v, gc, flag, nmarks, leases, handle, last, dropping>>

\* self.gc.store(0), after which retain starts on the entries of the table.
GcStore ==
    /\ pass.pc = "store"
    /\ gc' = 0
    /\ LET todo == {k \in Keys : v[k] # NoEntry}
       IN  pass' = [pass EXCEPT !.pc = IF todo = {} THEN "tail" ELSE "scan",
                                !.todo = todo]
    /\ UNCHANGED <<v, flag, nmarks, leases, handle, last, dropping>>

\* Mutant of GcRetain: the counter is reset once more when retain is through.
GcRetainThenReset(k) ==
    /\ pass.pc = "scan"
    /\ k \in pass.todo
    /\ v' = IF flag[v[k].marker] THEN [v EXCEPT ![k] = NoEntry] ELSE v
    /\ gc' = IF pass.todo = {k} THEN 0 ELSE gc
    /\ pass' = [pass EXCEPT !.pc = IF pass.todo = {k} THEN "tail" ELSE "scan",
                            !.todo = pass.todo \ {k}]
    /\ UNCHANGED <<flag, nmarks, leases, handle, last, dropping>>

\* retain visits the entry of k: one load of its marker, and the entry is
\* removed if the marker is set.  HashMap iteration order is unspecified.
GcRetain(k) ==
    /\ pass.pc = "scan"
    /\ k \in pass.todo
    /\ v' = IF flag[v[k].marker] THEN [v EXCEPT ![k] = NoEntry] ELSE v
    /\ pass' = [pass EXCEPT !.pc = IF pass.todo = {k} THEN "tail" ELSE "scan",
                            !.todo = pass.todo \ {k}]
    /\ UNCHANGED <<gc, flag, nmarks, leases, handle, last, dropping>>

\* gc() returns.
GcReturn ==
    /\ pass.pc = "tail"
    /\ pass.op = "gc"
    /\ pass' = NoPass
    /\ last' = Call("gc", 0, 0, None, pass.fired, 0)
    /\ UNCHANGED <<v, gc, flag, nmarks, leases, handle, dropping>>

\* insert(k, x) after self.gc(): the new marker, self.v.insert and the load of
\* the replaced entry's marker.
InsertStore ==
    /\ pass.pc = "tail"
    /\ pass.op = "insert"
    /\ LET m == nmarks + 1
       IN  /\ v' = [v EXCEPT ![pass.key] = [val |-> pass.val, marker |-> m]]
           /\ nmarks' = m
           /\ leases' = leases \cup {m}
           /\ last' = Call("insert", pass.key, pass.val,
                           PrevValue(v[pass.key], flag), pass.fired, 0)
    /\ pass' = NoPass
    /\ UNCHANGED <<gc, flag, handle, dropping>>

\* entry(k) after self.gc(): the removal of a marked entry and the handle.
EntryLookup ==
    /\ pass.pc = "tail"
    /\ pass.op = "entry"
    /\ LET t2 == LazyEvict(v, pass.key, flag)
       IN  /\ v' = t2
           /\ handle' = [kind |-> IF t2[pass.key] = NoEntry THEN "Vacant" ELSE "Occupied",
                         key |-> pass.key]
           /\ last' = Call("entry", pass.key, 0, None, pass.fired, 0)
    /\ pass' = NoPass
    /\ UNCHANGED <<gc, flag, nmarks, leases, dropping>>

\* drop(), first operation: self.marker.store(true).
DropStore(m) ==
    /\ m \in leases
    /\ flag' = MarkerStore(flag, m)
    /\ leases' = leases \ {m}
    /\ dropping' = dropping \cup {m}
    /\ UNCHANGED <<v, gc, nmarks, handle, last, pass>>

\* drop(), second operation: self.gc.fetch_add(1).
DropAdd(m) ==
    /\ m \in dropping
    /\ gc' = FetchAdd(gc)
    /\ dropping' = dropping \ {m}
    /\ last' = Call("drop", 0, 0, None, FALSE, 0)
    /\ UNCHANGED <<v, flag, nmarks, leases, handle, pass>>

NextConc ==
    \/ \E k \in Keys, x \in Vals : GcLoad("insert", k, x)
    \/ \E k \in Keys : GcLoad("entry", k, 0)
    \/ GcLoad("gc", 0, 0)
    \/ GcStore
    \/ \E k \in Keys : GcRetain(k)
    \/ GcReturn
    \/ InsertStore
    \/ EntryLookup
    \/ \E k \in Keys : Get(k)
    \/ \E k \in Keys : GetMut(k)
    \/ LenCall
    \/ IntoMut
    \/ \E keep \in BOOLEAN, x \in Vals : InsertWith(keep, x)
    \/ \E keep \in BOOLEAN, x \in Vals : OrInsertWith(keep, x)
    \/ \E w \in Vals : Write(w)
    \/ EndBorrow
    \/ \E m \in Marks : DropStore(m)
    \/ \E m \in Marks : DropAdd(m)

\* The interleavings are explored from the new map.
InitConc == New

SpecConc == InitConc /\ [][NextConc]_vars

----------------------------------------------------------------------------
\* Vocabulary of the properties.

\* k has an entry and the MarkOnDrop issued with it is still held.
Live(k) == v[k] # NoEntry /\ v[k].marker \in leases

\* k has an entry whose marker reads false / true.
Unreleased(k) == v[k] # NoEntry /\ ~flag[v[k].marker]

Released(k) == v[k] # NoEntry /\ flag[v[k].marker]

\* Entries physically in the table whose marker is set.
Garbage == Cardinality({k \in Keys : Released(k)})

\* Markers that have been set so far, in the table or not.
ReleasedFlags == Cardinality({m \in Marks : flag[m]})

\* Every action writes last, so last' names the call a step is.
IsCall(op, k) == last'.op = op /\ last'.key = k

----------------------------------------------------------------------------
\* C1: insert(k, x) stores x under a newly issued, held MarkOnDrop; while that
\* MarkOnDrop is held and k is neither re-inserted nor written, no step of any
\* call (gc passes included) changes or removes k's entry, and get(k) returns
\* its value.
C1_LiveEntryVisible ==
    [][\A k \in Keys :
        /\ IsCall("insert", k) =>
              /\ v'[k].val = last'.val
              /\ v'[k].marker \in leases' \ leases
        /\ (/\ Live(k)
            /\ v[k].marker \in leases'
            /\ ~(IsCall("insert", k) \/ IsCall("write", k))) => v'[k] = v[k]
        /\ (IsCall("get", k) /\ Live(k)) => last'.ret = v[k].val
      ]_vars

\* A get returns the value of a held entry after other leases were dropped
\* and a gc pass removed their entries.
C1_Witness ==
    /\ last.op = "get"
    /\ last.ret # None
    /\ Live(last.key)
    /\ Len(v) = 1
    /\ ReleasedFlags >= 2

\* C2: a get or get_mut returns a value only for a key whose entry's
\* MarkOnDrop is still held: once the MarkOnDrop of k's current entry has been
\* dropped, get(k) and get_mut(k) return absent, with or without a gc() call.
C2_DroppedLeaseAbsent ==
    (last.op \in {"get", "get_mut"} /\ last.ret # None) => Live(last.key)

\* One insertion, its MarkOnDrop dropped, no gc pass since (the counter is
\* still 1): the get found the entry absent and the table is empty.
C2_Witness ==
    /\ last.op = "get"
    /\ last.ret = None
    /\ nmarks = 1
    /\ leases = {}
    /\ gc = 1
    /\ Len(v) = 0

\* C3: insert(k, _) returns the value k's entry holds at the call if the
\* MarkOnDrop of that entry is still held, and absent otherwise (no entry, or
\* an entry whose MarkOnDrop was dropped), whether or not the gc pass fires.
C3_InsertPrevious ==
    [][\A k \in Keys :
        IsCall("insert", k) => last'.ret = IF Live(k) THEN v[k].val ELSE None
      ]_vars

\* An insert whose gc check did not fire (counter >= 1 and a full table)
\* overwrote an entry that was still in the table and reported absent.
C3_Witness ==
    /\ last.op = "insert"
    /\ last.ret = None
    /\ ~last.fired
    /\ gc >= 1
    /\ Len(v) = NumKeys

\* C4 as stated: entry(k).or_insert_with(f) calls f once when k has no entry
\* or a released one and not at all when k's entry is unreleased; in that
\* case it returns the existing value and the table, the entry's marker and
\* its MarkOnDrop are unchanged from the moment entry(k) is called.
C4_TableUnchanged ==
    [][\A k \in Keys :
        /\ (IsCall("entry", k) /\ v[k] = NoEntry) => handle'.kind = "Vacant"
        /\ (IsCall("entry", k) /\ Released(k)) => handle'.kind = "Vacant"
        /\ (IsCall("entry", k) /\ Unreleased(k)) =>
              /\ handle'.kind = "Occupied"
              /\ v' = v
              /\ flag' = flag
              /\ leases' = leases
        /\ IsCall("or_insert_with", k) =>
              /\ last'.fcalls = IF handle.kind = "Vacant" THEN 1 ELSE 0
              /\ handle.kind = "Occupied" =>
                    /\ last'.ret = v[k].val
                    /\ v' = v
                    /\ flag' = flag
                    /\ leases' = leases
      ]_vars

\* C4, amended: as above, except that on an unreleased entry only k's own
\* entry is sure to be unchanged: the gc check at the start of entry(k) may
\* remove other entries, namely those whose marker is set, and nothing else.
C4_OwnEntryUnchanged ==
    [][\A k \in Keys :
        /\ (IsCall("entry", k) /\ v[k] = NoEntry) => handle'.kind = "Vacant"
        /\ (IsCall("entry", k) /\ Released(k)) => handle'.kind = "Vacant"
        /\ (IsCall("entry", k) /\ Unreleased(k)) =>
              /\ handle'.kind = "Occupied"
              /\ v'[k] = v[k]
              /\ \A j \in Keys : v'[j] = v[j] \/ (Released(j) /\ v'[j] = NoEntry)
              /\ flag' = flag
              /\ leases' = leases
        /\ IsCall("or_insert_with", k) =>
              /\ last'.fcalls = IF handle.kind = "Vacant" THEN 1 ELSE 0
              /\ handle.kind = "Occupied" =>
                    /\ last'.ret = v[k].val
                    /\ v' = v
                    /\ flag' = flag
                    /\ leases' = leases
      ]_vars

\* or_insert_with returned the existing value of a held entry without calling
\* the factory, after the gc check of its entry() emptied two other slots of
\* the populated table.
C4_Witness ==
    /\ last.op = "or_insert_with"
    /\ last.fcalls = 0
    /\ Live(last.key)
    /\ last.ret = v[last.key].val
    /\ Len(v) = NumKeys - 2
    /\ gc = 0
    /\ nmarks = MaxMarks - PopulatedAllocs

\* C5: a vacant insert whose factory did not keep the MarkOnDrop stores the
\* entry with its marker already set; a write through the returned reference
\* leaves the marker as it is; an entry whose marker is set keeps it set until
\* it is removed or replaced; get(k) on it returns absent, entry(k) on it gives
\* a Vacant handle, and consuming a Vacant handle calls the factory.
C5_UnkeptLeaseDeadEntry ==
    [][\A k \in Keys :
        /\ (/\ IsCall("insert_with", k) \/ IsCall("or_insert_with", k)
            /\ last'.fcalls = 1
            /\ leases' = leases) => Released(k)'
        /\ IsCall("write", k) => (v'[k].marker = v[k].marker /\ flag' = flag)
        /\ (/\ Released(k)
            /\ v'[k] # NoEntry
            /\ v'[k].marker = v[k].marker) => Released(k)'
        /\ (IsCall("get", k) /\ Released(k)) => (last'.ret = None /\ v'[k] = NoEntry)
        /\ (IsCall("entry", k) /\ Released(k)) => handle'.kind = "Vacant"
        /\ (/\ IsCall("insert_with", k) \/ IsCall("or_insert_with", k)
            /\ handle.kind = "Vacant") => last'.fcalls = 1
      ]_vars

\* The factory of or_insert_with was called for a second allocation and let
\* its MarkOnDrop go before returning: two markers allocated, both set, no
\* MarkOnDrop held, and the entry just stored is released.
C5_Witness ==
    /\ last.op = "or_insert_with"
    /\ last.fcalls = 1
    /\ Released(last.key)
    /\ nmarks = 2
    /\ leases = {}
    /\ flag[1] /\ flag[2]
    /\ v[last.key].marker = 2

\* C6: right after an Occupied handle is consumed (into_mut, or or_insert_with
\* that did not call the factory), the entry it refers to is unreleased.
C6_OccupiedIsUnreleased ==
    (last.op \in {"into_mut", "or_insert_with"} /\ last.fcalls = 0)
        => Unreleased(last.key)

\* C7: a gc() call fires exactly when counter >= len / 2; when it fires the
\* counter becomes 0, the entries whose marker is set are removed and all
\* others are kept as they are; when it does not fire, table and counter are
\* unchanged.  gc() never touches a marker or a MarkOnDrop.
C7_GcPass ==
    [][last'.op = "gc" =>
        /\ last'.fired <=> (gc >= Len(v) \div 2)
        /\ (gc >= Len(v) \div 2) =>
              /\ gc' = 0
              /\ \A k \in Keys : v'[k] = IF Released(k) THEN NoEntry ELSE v[k]
        /\ (gc < Len(v) \div 2) => (v' = v /\ gc' = gc)
        /\ Len(v) <= 1 => last'.fired
        /\ flag' = flag
        /\ leases' = leases
      ]_vars

\* A direct gc() call that did not fire and left a released entry behind.
C7_Witness ==
    /\ last.op = "gc"
    /\ ~last.fired
    /\ Garbage >= 1

\* C8: right after gc(), insert or entry returns, at most len / 2 entries of
\* the table are released; and if the gc pass fired, the counter is 0 and no
\* released entry is left.
C8_AfterGcCheck ==
    last.op \in {"gc", "insert", "entry"} =>
        /\ Garbage <= Len(v) \div 2
        /\ last.fired => (gc = 0 /\ Garbage = 0)

\* An insert whose gc check did not fire returned with a released entry still
\* in the table.
C8_Witness ==
    /\ last.op = "insert"
    /\ ~last.fired
    /\ Garbage >= 1

C10_CounterAtMostGarbage == gc <= Garbage /\ gc <= Len(v)

\* C10, amended: the counter never exceeds the number of markers set so far,
\* one per dropped MarkOnDrop, whether or not their entries are in the table.
C10_CounterAtMostDrops == gc <= ReleasedFlags

\* The counter exceeds len: both released entries were evicted by reads, which
\* leave the counter alone.
C10_Witness ==
    /\ gc = 2
    /\ ReleasedFlags = 2
    /\ Len(v) = 0

\* C11: len() decreases only in a call whose gc pass fired (gc, insert,
\* entry) or in a get, get_mut or entry on a key whose entry was released;
\* a drop leaves len() as it is, and an insert or vacant insert whose gc check
\* did not fire does not decrease it.
C11_LenDecreasesOnlyByEviction ==
    [][/\ Len(v') < Len(v) =>
              \/ last'.op \in {"gc", "insert", "entry"} /\ last'.fired
              \/ last'.op \in {"get", "get_mut", "entry"} /\ Released(last'.key)
       /\ last'.op = "drop" => Len(v') = Len(v)
       /\ (last'.op = "insert" /\ ~last'.fired) => Len(v') >= Len(v)
       /\ last'.fcalls = 1 => Len(v') = Len(v) + 1
      ]_vars

\* A get_mut evicted the one released entry of the populated table: len is
\* one less, and no gc pass has fired (the counter still counts the drop).
C11_Witness ==
    /\ last.op = "get_mut"
    /\ last.ret = None
    /\ v[last.key] = NoEntry
    /\ Len(v) = NumKeys - 1
    /\ gc = 1
    /\ ReleasedFlags = 1

\* C12: len() returns the number of entries physically in the table, the
\* released but not yet evicted ones included (entries with a held MarkOnDrop
\* plus released entries), it reports 1 for a table whose only entry is
\* released while get of that key would evict it and report it absent, and the
\* call changes neither the table nor the flags nor the counter.
C12_LenCountsPhysicalEntries ==
    [][last'.op = "len" =>
          /\ last'.ret = Cardinality({k \in Keys : Live(k)}) + Garbage
          /\ last'.ret >= Cardinality({k \in Keys :
                              Lookup(LazyEvict(v, k, flag), k) # None})
          /\ \A k \in Keys :
                 Released(k) => Lookup(LazyEvict(v, k, flag), k) = None
          /\ v' = v /\ flag' = flag /\ gc' = gc
          /\ leases' = leases /\ nmarks' = nmarks
      ]_vars

\* insert on a new key of the empty map, drop of its MarkOnDrop, then len():
\* the one released entry is counted, and a get of it would report absent.
C12_Witness ==
    /\ last.op = "len"
    /\ last.ret = 1
    /\ nmarks = 1
    /\ Garbage = 1
    /\ gc = 1
    /\ \A k \in Keys : Lookup(LazyEvict(v, k, flag), k) = None

\* C13: a released flag is monotonic: a marker that is not allocated yet or
\* whose MarkOnDrop is just issued is false, no step changes a flag from true
\* to false, and a flag changes only in the drop of the MarkOnDrop bound to it
\* (a drop step of that MarkOnDrop, or the factory of a vacant insert letting
\* the MarkOnDrop it was handed go).
C13_FlagMonotonic ==
    [][\A m \in Marks :
          /\ flag[m] => flag'[m]
          /\ (m > nmarks /\ m <= MaxMarks) => ~flag[m]
          /\ m \in leases' => ~flag'[m]
          /\ flag'[m] # flag[m] =>
                 \/ /\ last'.op = "drop"
                    /\ m \in leases
                    /\ leases' = leases \ {m}
                 \/ /\ last'.fcalls = 1
                    /\ m = nmarks + 1
                    /\ nmarks' = m
                    /\ leases' = leases
      ]_vars

\* An insert over the released entry of the populated table: the flag of the
\* replaced entry is still set, the entry stored now has a flag of its own.
C13_Witness ==
    /\ last.op = "insert"
    /\ ~last.fired
    /\ flag[MaxMarks + last.key]
    /\ Unreleased(last.key)
    /\ v[last.key].marker <= MaxMarks

\* C14: a drop sets the flag of its own MarkOnDrop, which was false, adds
\* exactly 1 to the counter and changes nothing else (table, values, len(),
\* every other flag); no marker is bound to two table entries and a held
\* MarkOnDrop is bound to an unset flag, so the drop turns at most one key
\* from visible to released.
C14_DropFrame ==
    [][/\ \A j, k \in Keys :
              (j # k /\ v[j] # NoEntry /\ v[k] # NoEntry)
                  => v[j].marker # v[k].marker
       /\ last'.op = "drop" =>
              \E m \in leases :
                  /\ ~flag[m]
                  /\ flag' = [flag EXCEPT ![m] = TRUE]
                  /\ leases' = leases \ {m}
                  /\ gc' = gc + 1
                  /\ v' = v
                  /\ Len(v') = Len(v)
                  /\ nmarks' = nmarks
                  /\ handle' = handle
                  /\ Cardinality({k \in Keys : Unreleased(k) /\ ~Unreleased(k)'}) <= 1
                  /\ \A k \in Keys :
                         (Unreleased(k) /\ ~Unreleased(k)') => v[k].marker = m
      ]_vars

\* The first drop on the populated table: one entry released, counter 1, all
\* NumKeys entries still stored.
C14_Witness ==
    /\ last.op = "drop"
    /\ gc = 1
    /\ Garbage = 1
    /\ ReleasedFlags = 1
    /\ Len(v) = NumKeys
    /\ Cardinality(leases) = NumKeys - 1

\* C15: the drop of a held MarkOnDrop whose entry was replaced by a later
\* insert on the same key (its marker is bound to no entry) adds 1 to the
\* counter and leaves the table and every entry's liveness as they are; a gc
\* pass that fires, whatever made the counter reach the threshold, keeps every
\* entry whose MarkOnDrop is held (the key the call itself inserts aside), and
\* get on such a key returns the value stored.
C15_OrphanDropHarmless ==
    [][/\ (/\ last'.op = "drop"
           /\ \A k \in Keys :
                  v[k] # NoEntry => v[k].marker \notin (leases \ leases'))
          => /\ gc' = gc + 1
             /\ v' = v
             /\ Garbage' = Garbage
             /\ \A k \in Keys : Live(k) <=> Live(k)'
       /\ \A k \in Keys :
              /\ (/\ last'.fired
                  /\ Live(k)
                  /\ ~(last'.op = "insert" /\ last'.key = k))
                 => v'[k] = v[k]
              /\ (last'.op = "get" /\ last'.key = k /\ Live(k))
                 => (last'.ret = v[k].val /\ v' = v)
      ]_vars

\* From the empty map: two inserts on one key and one on another, then the
\* drop of the first MarkOnDrop.  Nothing in the table is released, the counter
\* is 1 and has reached len() / 2, so the next gc check fires.
C15_Witness ==
    /\ last.op = "drop"
    /\ nmarks = MaxMarks
    /\ flag[1]
    /\ ReleasedFlags = 1
    /\ Garbage = 0
    /\ gc = 1
    /\ Len(v) = 2
    /\ GcFires(gc, v)
    /\ \A k \in Keys : v[k] # NoEntry => Live(k)

\* C16: get(k) and get_mut(k) do a lazy eviction and nothing else: a released
\* entry of k is removed (len() goes down by exactly 1) and absent is
\* returned; otherwise the table is unchanged; the counter, the flags and the
\* entries of the other keys are unchanged in every case, also when the
\* counter has reached the gc threshold.
C16_GetOnlyEvictsOwnKey ==
    [][\A k \in Keys :
          (last'.op \in {"get", "get_mut"} /\ last'.key = k) =>
              /\ IF Released(k)
                 THEN /\ v'[k] = NoEntry
                      /\ Len(v') = Len(v) - 1
                      /\ last'.ret = None
                 ELSE /\ v' = v
                      /\ last'.ret = Lookup(v, k)
              /\ \A j \in Keys \ {k} : v'[j] = v[j]
              /\ gc' = gc
              /\ flag' = flag
              /\ leases' = leases
              /\ nmarks' = nmarks
      ]_vars

\* get evicted a released entry while another released entry stayed in the
\* table and the counter was at the threshold: a gc check would have fired.
C16_Witness ==
    /\ last.op = "get"
    /\ last.ret = None
    /\ v[last.key] = NoEntry
    /\ flag[MaxMarks + last.key]
    /\ Garbage = 1
    /\ gc = 2
    /\ Len(v) = NumKeys - 1
    /\ GcFires(gc, v)

\* C17: a write of w through the &mut V handed out by or_insert_with,
\* into_mut or get_mut changes only the value stored for that key: the entry
\* keeps its marker, and counter, flags and held MarkOnDrops are unchanged; a
\* get of the key that follows returns w while the MarkOnDrop of the entry is
\* held and absent once it is dropped.
C17_WriteOnlyChangesValue ==
    [][\A k \in Keys :
          /\ (last'.op = "write" /\ last'.key = k) =>
                 /\ handle = [kind |-> "Ref", key |-> k]
                 /\ v[k] # NoEntry
                 /\ v' = [v EXCEPT ![k] = [val |-> last'.val, marker |-> v[k].marker]]
                 /\ gc' = gc
                 /\ flag' = flag
                 /\ leases' = leases
                 /\ nmarks' = nmarks
          /\ (last'.op = "get" /\ last'.key = k /\ v[k] # NoEntry) =>
                 last'.ret = IF v[k].marker \in leases THEN v[k].val ELSE None
          /\ (last'.op = "get" /\ last'.key = k /\ last.op = "write" /\ last.key = k) =>
                 last'.ret = IF v[k].marker \in leases THEN last.val ELSE None
      ]_vars

\* get returns, for an entry the populated table started with and whose
\* MarkOnDrop is held, a value other than the one it was inserted with: the
\* value was written through a reference.
C17_Witness ==
    /\ last.op = "get"
    /\ last.ret # None
    /\ v[last.key] # NoEntry
    /\ v[last.key].marker = MaxMarks + last.key
    /\ last.ret # InitVal(last.key)
    /\ Live(last.key)

\* C18 as stated: with drop() in two steps and a gc pass as load, store and a
\* scan entry by entry, in every reachable state the released entries in the
\* table number at most the counter plus the drops between their two steps.
C18_ReleasedAccounted ==
    Garbage <= gc + Cardinality(dropping)

\* C18: in every reachable state of SpecConc the released entries in the
\* table that a running pass does not still have to visit number at most the
\* counter plus the drops between their two steps; with no pass between its
\* store and the end of its scan that is every released entry in the table.
C18_ReleasedAccountedOutsideScan ==
    Cardinality({k \in Keys : Released(k) /\ k \notin pass.todo})
        <= gc + Cardinality(dropping)

\* A pass in its scan with the counter at 0: a released entry it has yet to
\* visit, and an entry it has visited and kept that a drop released since and
\* has not yet added to the counter.
C18_Witness ==
    /\ pass.pc = "scan"
    /\ gc = 0
    /\ \E k \in pass.todo : Released(k)
    /\ \E j \in Keys \ pass.todo : Released(j) /\ v[j].marker \in dropping

\* C19: gc() is idempotent when no MarkOnDrop is dropped in between: in every
\* reachable state, table and counter after two gc() calls in a row are the
\* table and counter after one, and right after a gc() call a further one
\* changes neither.
C19_GcIdempotent ==
    LET t1 == GcTable(v, gc, flag)
        c1 == GcCounter(v, gc)
    IN  /\ GcTable(t1, c1, flag) = t1
        /\ GcCounter(t1, c1) = c1
        /\ last.op = "gc" => (GcTable(v, gc, flag) = v /\ GcCounter(v, gc) = gc)

\* Right after a gc() whose pass fired and left one entry: the counter is 0,
\* 0 >= 1 / 2, so a second gc() fires again, and finds nothing to remove.
C19_Witness ==
    /\ last.op = "gc"
    /\ last.fired
    /\ gc = 0
    /\ Len(v) = 1
    /\ ReleasedFlags >= 1
    /\ GcFires(gc, v)
    /\ Garbage = 0

====
